---------------------------- MODULE Spec2Model ----------------------------
(***************************************************************************)
(* Model of the Twitch category ranking tools:                             *)
(*   twitch-ranking/dashboard.py              (load_history, build_summary,*)
(*                                             classify_growth_type, main) *)
(*   twitch-ranking/analyze_twitch_history.py (load_history,               *)
(*                                             prepare_metrics,            *)
(*                                             detect_struggling_categories)*)
(*                                                                         *)
(* Conventions.                                                            *)
(*  - A DataFrame is a sequence of records (one record per row, in row     *)
(*    order; the RangeIndex label of row i is i).                          *)
(*  - A float is modelled by the exact rational it approximates, as a      *)
(*    record [n, d] in lowest terms with d > 0.  NaN is [n = 0, d = 0].    *)
(*  - A category name is a positive integer: k stands for the k-th name in *)
(*    the lexicographic order pandas sorts group keys by.                  *)
(*  - A snapshot time is a positive integer (minutes on some clock).       *)
(*  - Column names are ASCII renderings of the source's Japanese labels;   *)
(*    the comment at build_summary gives the correspondence.               *)
(***************************************************************************)
EXTENDS Integers, Sequences, FiniteSets, TLC

VARIABLES
    pc,        \* position of the running script
    files,     \* the snapshot files under data/, in sorted(glob) order
    df,        \* the observation table (a DataFrame), or None
    summary,   \* build_summary's result, or None
    view,      \* what the query layer has produced (filtered / sorted / shown)
    out        \* the last value returned, raised or written by a step

vars == <<pc, files, df, summary, view, out>>

\* float NaN: the one "rational" with denominator 0
NaN == [n |-> 0, d |-> 0]

-----------------------------------------------------------------------------
(* Bounds of the model *)

MaxRows == 2        \* rows of an observation table drawn directly
MaxFiles == 2       \* snapshot files under data/
MaxTime == 2        \* snapshot times 1..MaxTime

MaxGrowthViewers == 21   \* viewers 0..MaxGrowthViewers of a two-snapshot series
MaxGrowthTenths == 90    \* growth rates -1.0 .. MaxGrowthTenths / 10 handed to the classifier
MaxRankDelta == 20       \* rank deltas -MaxRankDelta..MaxRankDelta handed to the classifier

Names == {1, 2}             \* category names
ViewerValues == {0, 1}      \* viewers of a row of a small table
StreamerValues == {0, 1}    \* streamers of a row of a small table
RankValues == {1, 2}        \* rank of a row of a small table

-----------------------------------------------------------------------------
(* Exact arithmetic standing for float64 *)

Abs(x) == IF x < 0 THEN -x ELSE x

RECURSIVE Gcd(_, _)
Gcd(a, b) == IF b = 0 THEN a ELSE Gcd(b, a % b)

\* n / d for integers, d # 0 (Python's true division of two numbers)
Rat(n, d) ==
    LET s == IF d < 0 THEN -1 ELSE 1
        g == Gcd(Abs(n), Abs(d))
    IN  [n |-> (s * n) \div g, d |-> (s * d) \div g]

RInt(k) == [n |-> k, d |-> 1]
RAdd(x, y) == Rat(x.n * y.d + y.n * x.d, x.d * y.d)
RMul(x, y) == Rat(x.n * y.n, x.d * y.d)
RLess(x, y) == x.n * y.d < y.n * x.d
RGreater(x, y) == RLess(y, x)

RECURSIVE Pow10(_)
Pow10(k) == IF k = 0 THEN 1 ELSE 10 * Pow10(k - 1)

\* Series.round(k): numpy rounds x * 10^k to the nearest integer, halves to even.
\* (On floats an exact decimal half can fall on either side; the claims settled
\*  here do not rest on such halves.)
Round(x, k) ==
    LET m == x.n * Pow10(k)
        f == m \div x.d
        r == m % x.d
        up == \/ 2 * r > x.d
              \/ 2 * r = x.d /\ f % 2 = 1
    IN  Rat(IF up THEN f + 1 ELSE f, Pow10(k))

\* Series.replace(0, 1)
Replace01(v) == IF v = 0 THEN 1 ELSE v

-----------------------------------------------------------------------------
(* Sequences and sets *)

Range(s) == {s[i] : i \in 1..Len(s)}

RECURSIVE SumOver(_, _)
SumOver(S, f) ==
    IF S = {} THEN 0
    ELSE LET x == CHOOSE y \in S : TRUE IN f[x] + SumOver(S \ {x}, f)

RECURSIVE RSumOver(_, _)
RSumOver(S, f) ==
    IF S = {} THEN RInt(0)
    ELSE LET x == CHOOSE y \in S : TRUE IN RAdd(f[x], RSumOver(S \ {x}, f))

Min(S) == CHOOSE x \in S : \A y \in S : x <= y
Max(S) == CHOOSE x \in S : \A y \in S : x >= y

\* the elements of a set of integers, ascending
RECURSIVE Ascending(_)
Ascending(S) == IF S = {} THEN <<>> ELSE <<Min(S)>> \o Ascending(S \ {Min(S)})

Perms(n) == {p \in [1..n -> 1..n] : \A i, j \in 1..n : i # j => p[i] # p[j]}


-----------------------------------------------------------------------------
(* Metric derivation *)

\* dashboard.py load_history: viewers / streamers.replace(0, 1)
DashCompetitionIndex(r) == Rat(r.viewers, Replace01(r.streamers))

\* analyze_twitch_history.py prepare_metrics:
\*   viewers / streamers if streamers > 0 else 0
PrepCompetitionIndex(r) ==
    IF r.streamers > 0 THEN Rat(r.viewers, r.streamers) ELSE RInt(0)

WithIndex(r, ci) ==
    [name |-> r.name, snapshot |-> r.snapshot, viewers |-> r.viewers,
     streamers |-> r.streamers, rank |-> r.rank, competition_index |-> ci]

\* df_all["competition_index"] = ... over every row
DashDerive(t) == [i \in 1..Len(t) |-> WithIndex(t[i], DashCompetitionIndex(t[i]))]

\* prepare_metrics(df)
prepare_metrics(t) == [i \in 1..Len(t) |-> WithIndex(t[i], PrepCompetitionIndex(t[i]))]

-----------------------------------------------------------------------------
(* DataFrame operations used by the aggregation *)

\* Faulty variant: the table is grouped without having been sorted
SortedBySnapshot_Unsorted(t) == {t}

\* The row orders df.sort_values("snapshot") may return.  pandas sorts with
\* kind="quicksort", which promises no order among rows of equal snapshot;
\* every order that is ascending in snapshot is a possible result.
SortedBySnapshot(t) ==
    {[i \in 1..Len(t) |-> t[p[i]]] : p \in
        {q \in Perms(Len(t)) :
            \A i, j \in 1..Len(t) : i < j => t[q[i]].snapshot <= t[q[j]].snapshot}}

\* row labels of the group of name g
GroupIdx(t, g) == {i \in 1..Len(t) : t[i].name = g}

\* groupby("name") keys, in sorted order
GroupKeys(t) == Ascending({t[i].name : i \in 1..Len(t)})

\* groupby("name").first() / .last() on a table
GroupFirst(t, g) == t[Min(GroupIdx(t, g))]
GroupLast(t, g) == t[Max(GroupIdx(t, g))]

\* groupby("name")["viewers"].idxmax(): the label of the first row, in row
\* order, that holds the group's maximum
IdxMax(t, g) ==
    LET I == GroupIdx(t, g)
        m == Max({t[i].viewers : i \in I})
    IN  Min({i \in I : t[i].viewers = m})

\* ("viewers", "std"): sample variance (ddof = 1), NaN for a single row;
\* kept as the variance, the square root is taken where the column is rounded
ViewersVariance(t, g) ==
    LET I == GroupIdx(t, g)
        n == Cardinality(I)
        s == SumOver(I, [i \in I |-> t[i].viewers])
        q == SumOver(I, [i \in I |-> t[i].viewers * t[i].viewers])
    IN  IF n < 2 THEN NaN ELSE Rat(n * q - s * s, n * (n - 1))

\* sqrt(v) rounded to one decimal: the k / 10 nearest to sqrt(v)
SqrtRound1(v) ==
    LET k == CHOOSE j \in 0..(10 * (v.n + 1)) :
                /\ (j = 0 \/ (2 * j - 1) * (2 * j - 1) * v.d <= 400 * v.n)
                /\ 400 * v.n < (2 * j + 1) * (2 * j + 1) * v.d
    IN  Rat(k, 10)

\* Faulty variant: the column is rounded without fillna(0)
FillnaRoundStd_NoFillna(v) == IF v = NaN THEN NaN ELSE SqrtRound1(v)

\* summary["viewers_std"].fillna(0).round(1)
FillnaRoundStd(v) == IF v = NaN THEN Round(RInt(0), 1) ELSE SqrtRound1(v)

-----------------------------------------------------------------------------
(* Classification *)

RAPID == "rapid_growth"    \* "急成長"
GROWTH == "growth"         \* "成長"
FLAT == "flat"             \* "横ばい"
DECLINE == "decline"       \* "下降"
GrowthTypes == {RAPID, GROWTH, FLAT, DECLINE}

\* Faulty variant: the second rule tests the rank improvement with >=
classify_growth_type_NonStrict(row) ==
    LET growth_rate == row.growth_rate
        rank_improve == row.rank_improve
    IN  IF RGreater(growth_rate, Rat(8, 10)) /\ rank_improve > 15 THEN RAPID
        ELSE IF RGreater(growth_rate, Rat(3, 10)) /\ rank_improve >= 5 THEN GROWTH
        ELSE IF RGreater(growth_rate, Rat(-1, 10)) THEN FLAT
        ELSE DECLINE

classify_growth_type(row) ==
    LET growth_rate == row.growth_rate
        rank_improve == row.rank_improve
    IN  IF RGreater(growth_rate, Rat(8, 10)) /\ rank_improve > 15 THEN RAPID
        ELSE IF RGreater(growth_rate, Rat(3, 10)) /\ rank_improve > 5 THEN GROWTH
        ELSE IF RGreater(growth_rate, Rat(-1, 10)) THEN FLAT
        ELSE DECLINE

-----------------------------------------------------------------------------
(* build_summary *)

\* Columns of the summary:
\*   category "カテゴリ"            total_viewers "累計視聴者数"
\*   total_streamers "累計配信者数"  avg_viewers "平均視聴者数"
\*   max_viewers "最大視聴者数"      samples "サンプル数"
\*   avg_competition "平均競争率"    viewers_std "視聴者数標準偏差"
\*   first_snapshot "初回取得日時"   first_viewers "初回視聴者数"
\*   first_streamers "初回配信者数"  first_rank "初回ランク"
\*   last_snapshot "最新取得日時"    last_viewers "最新視聴者数"
\*   last_streamers "最新配信者数"   last_rank "最新ランク"
\*   peak_snapshot "ピーク日時"      peak_viewers "ピーク視聴者数"
\*   viewers_delta "視聴者数増加量"  rank_improve "ランク改善量"
\*   growth_rate "視聴者増加率"      growth_score "成長スコア"
\*   growth_type "成長タイプ"

\* summary["rank_improve"] / summary["first_rank"].replace(0, 1)
RankTerm(rank_improve, first_rank) == Rat(rank_improve, Replace01(first_rank))

\* Faulty variant: the weights of the growth rate and of the rank term are exchanged
GrowthScore_SwappedWeights(growth_rate, rank_improve, first_rank, avg_competition) ==
    RAdd(RAdd(RMul(growth_rate, RInt(30)),
              RMul(RankTerm(rank_improve, first_rank), RInt(50))),
         RMul(avg_competition, RInt(2)))

\* growth_rate * 50 + (rank_improve / first_rank.replace(0, 1)) * 30
\*   + avg_competition * 2
GrowthScore(growth_rate, rank_improve, first_rank, avg_competition) ==
    RAdd(RAdd(RMul(growth_rate, RInt(50)),
              RMul(RankTerm(rank_improve, first_rank), RInt(30))),
         RMul(avg_competition, RInt(2)))

\* agg.join(first).join(last).join(peak) and the derived columns, for the
\* group g of table t; sorted is df.sort_values("snapshot")
JoinedRow(t, sorted, g) ==
    LET I == GroupIdx(t, g)
        n == Cardinality(I)
        first == GroupFirst(sorted, g)
        last == GroupLast(sorted, g)
        peak == t[IdxMax(t, g)]
        viewers_delta == last.viewers - first.viewers
        rank_improve == first.rank - last.rank
        growth_rate == Rat(viewers_delta, Replace01(first.viewers))
        avg_competition ==
            RMul(RSumOver(I, [i \in I |-> t[i].competition_index]), Rat(1, n))
    IN  [category |-> g,
         total_viewers |-> SumOver(I, [i \in I |-> t[i].viewers]),
         total_streamers |-> SumOver(I, [i \in I |-> t[i].streamers]),
         avg_viewers |-> Rat(SumOver(I, [i \in I |-> t[i].viewers]), n),
         max_viewers |-> Max({t[i].viewers : i \in I}),
         samples |-> n,
         avg_competition |-> avg_competition,
         viewers_std |-> ViewersVariance(t, g),
         first_snapshot |-> first.snapshot,
         first_viewers |-> first.viewers,
         first_streamers |-> first.streamers,
         first_rank |-> first.rank,
         last_snapshot |-> last.snapshot,
         last_viewers |-> last.viewers,
         last_streamers |-> last.streamers,
         last_rank |-> last.rank,
         peak_snapshot |-> peak.snapshot,
         peak_viewers |-> peak.viewers,
         viewers_delta |-> viewers_delta,
         rank_improve |-> rank_improve,
         growth_rate |-> growth_rate,
         growth_score |->
            GrowthScore(growth_rate, rank_improve, first.rank, avg_competition)]

\* summary["growth_type"] = summary.apply(classify_growth_type, axis=1)
Labelled(row) ==
    [c \in DOMAIN row \cup {"growth_type"} |->
        IF c = "growth_type" THEN classify_growth_type(row) ELSE row[c]]

\* the rounding block ("小数処理")
RoundGrowthRate(x) == Round(x, 2)
RoundGrowthScore(x) == Round(x, 2)

Rounded(row) ==
    [row EXCEPT !.avg_viewers = Round(@, 1),
                !.avg_competition = Round(@, 2),
                !.viewers_std = FillnaRoundStd(@),
                !.growth_rate = RoundGrowthRate(@),
                !.growth_score = RoundGrowthScore(@)]

\* build_summary(df), given the order sort_values returned
build_summary(t, sorted) ==
    LET keys == GroupKeys(t)
    IN  [k \in 1..Len(keys) |-> Rounded(Labelled(JoinedRow(t, sorted, keys[k])))]


-----------------------------------------------------------------------------
(* analyze_twitch_history.py detect_struggling_categories *)

StrugglingRow(sorted, g) ==
    LET first == GroupFirst(sorted, g)
        last == GroupLast(sorted, g)
    IN  [name |-> g,
         first_snapshot |-> first.snapshot,
         last_snapshot |-> last.snapshot,
         streamers_first |-> first.streamers,
         streamers_last |-> last.streamers,
         viewers_first |-> first.viewers,
         viewers_last |-> last.viewers,
         delta_streamers |-> last.streamers - first.streamers,
         delta_viewers |-> last.viewers - first.viewers]

\* Faulty variant: the streamer comparison lets a zero delta through
IsStruggling_NonStrict(first, last) ==
    last.streamers >= first.streamers /\ last.viewers < first.viewers

\* if streamers_last > streamers_first and viewers_last < viewers_first
IsStruggling(first, last) ==
    last.streamers > first.streamers /\ last.viewers < first.viewers

\* result_rows, in groupby order
RECURSIVE ResultRows(_, _)
ResultRows(sorted, keys) ==
    IF keys = <<>> THEN <<>>
    ELSE LET g == Head(keys)
             rest == ResultRows(sorted, Tail(keys))
         IN  IF IsStruggling(GroupFirst(sorted, g), GroupLast(sorted, g))
             THEN <<StrugglingRow(sorted, g)>> \o rest
             ELSE rest

\* sort_values(["delta_viewers", "delta_streamers"], ascending=[True, False]):
\* a lexsort, which keeps the order of rows equal on both keys
StrugglingBefore(rows, i, j) ==
    \/ rows[i].delta_viewers < rows[j].delta_viewers
    \/ /\ rows[i].delta_viewers = rows[j].delta_viewers
       /\ rows[i].delta_streamers > rows[j].delta_streamers
    \/ /\ rows[i].delta_viewers = rows[j].delta_viewers
       /\ rows[i].delta_streamers = rows[j].delta_streamers
       /\ i < j

SortStruggling(rows) ==
    LET n == Len(rows)
        p == CHOOSE q \in Perms(n) :
                \A i, j \in 1..n : i < j => StrugglingBefore(rows, q[i], q[j])
    IN  [i \in 1..n |-> rows[p[i]]]

\* what the call leaves behind: the rows written to struggling_categories.csv,
\* or no file at all when nothing was detected
detect_struggling_categories(sorted) ==
    LET result_rows == ResultRows(sorted, GroupKeys(sorted))
    IN  IF result_rows = <<>>
        THEN [kind |-> "no_csv", rows |-> <<>>]
        ELSE [kind |-> "csv", rows |-> SortStruggling(result_rows)]

-----------------------------------------------------------------------------
(* Observation tables drawn directly, in any row order *)

RawRows ==
    [name : Names, snapshot : 1..MaxTime, viewers : ViewerValues,
     streamers : StreamerValues, rank : RankValues]

RECURSIVE SeqsUpTo(_, _)
SeqsUpTo(S, n) ==
    IF n = 0 THEN {<<>>}
    ELSE LET shorter == SeqsUpTo(S, n - 1)
         IN  shorter \cup {Append(s, x) : s \in {t \in shorter : Len(t) = n - 1}, x \in S}

RawTables == SeqsUpTo(RawRows, MaxRows)

NoOut == [kind |-> "none"]

\* a table handed to build_summary (derived as dashboard.py derives it) or
\* to detect_struggling_categories (derived by prepare_metrics)
InitSummary ==
    /\ files = <<>>
    /\ \E t \in RawTables :
          \/ pc = "table" /\ df = DashDerive(t)
          \/ pc = "prepared" /\ df = prepare_metrics(t)
    /\ summary = <<>>
    /\ view = <<>>
    /\ out = NoOut

\* summary = build_summary(df)
BuildSummary ==
    /\ pc = "table"
    /\ \E sorted \in SortedBySnapshot(df) : summary' = build_summary(df, sorted)
    /\ pc' = "summarised"
    /\ UNCHANGED <<files, df, view, out>>

\* classify_growth_type applied again to the rows of a summary
Reclassify ==
    /\ pc = "summarised"
    /\ out' = [kind |-> "labels",
               labels |-> [k \in 1..Len(summary) |-> classify_growth_type(summary[k])]]
    /\ pc' = "reclassified"
    /\ UNCHANGED <<files, df, summary, view>>

\* detect_struggling_categories(df)
DetectStruggling ==
    /\ pc = "prepared"
    /\ \E sorted \in SortedBySnapshot(df) : out' = detect_struggling_categories(sorted)
    /\ pc' = "detected"
    /\ UNCHANGED <<files, df, summary, view>>

NextSummary == BuildSummary \/ Reclassify \/ DetectStruggling

SpecSummary == InitSummary /\ [][NextSummary]_vars


-----------------------------------------------------------------------------
(* Properties of the aggregation *)

SummaryDone == pc \in {"summarised", "reclassified"}

\* the observations of category g in the table
Observations(g) == {df[i] : i \in GroupIdx(df, g)}
Categories == {df[i].name : i \in 1..Len(df)}
Earliest(g) == {o \in Observations(g) : \A o2 \in Observations(g) : o.snapshot <= o2.snapshot}
Latest(g) == {o \in Observations(g) : \A o2 \in Observations(g) : o.snapshot >= o2.snapshot}
MaxViewersOf(g) == Max({o.viewers : o \in Observations(g)})

\* C2: each category's peak is an observation of that category holding its
\* maximum viewers, and among the observations that tie on the maximum it is
\* the one with the earliest snapshot time.
C2_PeakIsEarliestMaximum ==
    SummaryDone =>
        \A k \in 1..Len(summary) :
            LET r == summary[k]
                g == r.category
            IN  /\ r.peak_viewers = MaxViewersOf(g)
                /\ \E o \in Observations(g) :
                      o.snapshot = r.peak_snapshot /\ o.viewers = r.peak_viewers
                /\ \A o \in Observations(g) :
                      o.viewers = MaxViewersOf(g) => r.peak_snapshot <= o.snapshot

\* C3: one summary row per distinct category; first and last are each taken
\* whole from one observation of that category, first from an earliest one
\* and last from a latest one, so first_snapshot <= last_snapshot.
C3_FirstLastFromOwnSeries ==
    SummaryDone =>
        /\ Len(summary) = Cardinality(Categories)
        /\ {summary[k].category : k \in 1..Len(summary)} = Categories
        /\ \A k \in 1..Len(summary) :
              LET r == summary[k]
                  g == r.category
              IN  /\ \E o \in Earliest(g) :
                        /\ r.first_snapshot = o.snapshot
                        /\ r.first_viewers = o.viewers
                        /\ r.first_streamers = o.streamers
                        /\ r.first_rank = o.rank
                  /\ \E o \in Latest(g) :
                        /\ r.last_snapshot = o.snapshot
                        /\ r.last_viewers = o.viewers
                        /\ r.last_streamers = o.streamers
                        /\ r.last_rank = o.rank
                  /\ r.first_snapshot <= r.last_snapshot

\* a category was observed twice, the later observation standing first in the
\* table, and another row order would have changed first and last
C3_Witness ==
    /\ SummaryDone
    /\ \E i, j \in 1..Len(df) :
          /\ i < j
          /\ df[i].name = df[j].name
          /\ df[i].snapshot > df[j].snapshot
          /\ df[i].rank # df[j].rank
          /\ df[i].viewers # df[j].viewers
    /\ \E k \in 1..Len(summary) : summary[k].first_snapshot < summary[k].last_snapshot

\* C8: a category with exactly one observation has viewer standard deviation 0
\* (not NaN), count 1, and first, last and peak all equal to that observation.
C8_SingleObservation ==
    SummaryDone =>
        \A k \in 1..Len(summary) :
            LET r == summary[k]
                g == r.category
            IN  Cardinality(GroupIdx(df, g)) = 1 =>
                    LET o == df[CHOOSE i \in GroupIdx(df, g) : TRUE]
                    IN  /\ r.viewers_std = RInt(0)
                        /\ r.samples = 1
                        /\ r.first_snapshot = o.snapshot /\ r.first_viewers = o.viewers
                        /\ r.last_snapshot = o.snapshot /\ r.last_viewers = o.viewers
                        /\ r.peak_snapshot = o.snapshot /\ r.peak_viewers = o.viewers

\* a summary holding a single-observation category beside another category
C8_Witness ==
    /\ SummaryDone
    /\ Len(summary) = 2
    /\ \E k \in 1..Len(summary) :
          /\ Cardinality(GroupIdx(df, summary[k].category)) = 1
          /\ summary[k].peak_viewers > 0

Reported == {out.rows[i].name : i \in 1..Len(out.rows)}

\* C9: a category is reported as struggling exactly when its streamers rose
\* and its viewers fell between its first and its last observation by
\* snapshot time; any other sign combination, a zero delta included, is not
\* reported.  (Where several observations share the earliest or the latest
\* time, the one compared is one of them.)
C9_StrugglingIffSigns ==
    pc = "detected" =>
        /\ Reported \subseteq Categories
        /\ Len(out.rows) = Cardinality(Reported)
        /\ (out.kind = "no_csv") = (Reported = {})
        /\ \A g \in Categories :
              /\ g \in Reported =>
                    \E e \in Earliest(g), l \in Latest(g) :
                        l.streamers > e.streamers /\ l.viewers < e.viewers
              /\ (\A e \in Earliest(g), l \in Latest(g) :
                        l.streamers > e.streamers /\ l.viewers < e.viewers)
                    => g \in Reported

\* a category is reported whose later observation stands first in the table
C9_Witness ==
    /\ pc = "detected"
    /\ out.kind = "csv"
    /\ \E i, j \in 1..Len(df) :
          /\ i < j
          /\ df[i].name = df[j].name
          /\ df[i].name \in Reported
          /\ df[i].snapshot > df[j].snapshot
          /\ df[i].streamers > df[j].streamers
          /\ df[i].viewers < df[j].viewers

-----------------------------------------------------------------------------
(* One category observed at two snapshots, over a wider range of viewers *)

GrowthStreamerValues == {0, 3}
GrowthRankValues == {0, 1, 7, 17}

GrowthRows(t) ==
    [name : {1}, snapshot : {t}, viewers : 0..MaxGrowthViewers,
     streamers : GrowthStreamerValues, rank : GrowthRankValues]

InitGrowth ==
    /\ pc = "table"
    /\ files = <<>>
    /\ \E a \in GrowthRows(1), b \in GrowthRows(2) : df = DashDerive(<<a, b>>)
    /\ summary = <<>>
    /\ view = <<>>
    /\ out = NoOut

NextGrowth == BuildSummary \/ Reclassify

SpecGrowth == InitGrowth /\ [][NextGrowth]_vars

\* C4: classifying a row of the summary again, as build_summary returned it,
\* gives the label stored in that row.
C4_ReclassifySameLabel ==
    pc = "reclassified" =>
        \A k \in 1..Len(summary) : out.labels[k] = summary[k].growth_type

\* the zero-guarded denominator of the claim
Guarded(v) == IF v # 0 THEN v ELSE 1

\* growth_rate * 50 + (rank_delta / d) * 30 + mean_competition_index * 2 as
\* C6 states it, over a summary row r and the observations of its category;
\* computed exactly
ClaimedScore(r) ==
    LET I == GroupIdx(df, r.category)
        rank_delta == r.first_rank - r.last_rank
        d == Guarded(r.first_rank)
        v == Guarded(r.first_viewers)
        growth == [n |-> r.last_viewers - r.first_viewers, d |-> v]
        rankterm == [n |-> rank_delta, d |-> d]
        mean == RMul(RSumOver(I, [i \in I |-> df[i].competition_index]),
                     Rat(1, Cardinality(I)))
    IN  RAdd(RAdd(RMul(growth, RInt(50)), RMul(rankterm, RInt(30))), RMul(mean, RInt(2)))

\* C6 as stated: the growth score equals the formula.
C6_ScoreEqualsFormula ==
    SummaryDone =>
        \A k \in 1..Len(summary) : summary[k].growth_score = ClaimedScore(summary[k])

\* C6, amended: the growth score equals the formula, evaluated on the
\* unrounded growth rate and mean competition index, rounded to two decimals;
\* a first rank or first viewers of 0 is replaced by 1 in the denominator.
C6_ScoreIsRoundedFormula ==
    SummaryDone =>
        \A k \in 1..Len(summary) :
            summary[k].growth_score = Round(ClaimedScore(summary[k]), 2)

\* a category whose first observation has rank 0 and viewers 0, and whose
\* score is not zero
C6_Witness ==
    /\ SummaryDone
    /\ \E k \in 1..Len(summary) :
          /\ summary[k].first_rank = 0
          /\ summary[k].first_viewers = 0
          /\ summary[k].last_viewers > 0
          /\ summary[k].last_rank > 0
          /\ summary[k].growth_score # RInt(0)

-----------------------------------------------------------------------------
(* classify_growth_type on its own *)

ClassifierRows ==
    [growth_rate : {Rat(n, 10) : n \in -10..MaxGrowthTenths},
     rank_improve : -MaxRankDelta..MaxRankDelta,
     avg_competition : {RInt(0)}]

InitClassify ==
    /\ pc = "summarised"
    /\ files = <<>>
    /\ df = <<>>
    /\ \E row \in ClassifierRows : summary = <<row>>
    /\ view = <<>>
    /\ out = NoOut

SpecClassify == InitClassify /\ [][Reclassify]_vars

\* C5: exactly one of four labels, by first match: rapid growth iff
\* growth-rate > 0.8 and rank-delta > 15; else growth iff growth-rate > 0.3
\* and rank-delta > 5; else flat iff growth-rate > -0.1; else decline; all
\* comparisons strict (0.2 with 0 is flat, 9.0 with 20 is rapid growth).
C5_FirstMatchStrict ==
    pc = "reclassified" =>
        \A k \in 1..Len(summary) :
            LET g == summary[k].growth_rate
                rd == summary[k].rank_improve
                label == out.labels[k]
                rapid == 10 * g.n > 8 * g.d /\ rd > 15
                growth == 10 * g.n > 3 * g.d /\ rd > 5
                flat == 10 * g.n > -1 * g.d
            IN  /\ label \in GrowthTypes
                /\ (label = RAPID) = rapid
                /\ (label = GROWTH) = (~rapid /\ growth)
                /\ (label = FLAT) = (~rapid /\ ~growth /\ flat)
                /\ (label = DECLINE) = (~rapid /\ ~growth /\ ~flat)
                /\ (g = Rat(2, 10) /\ rd = 0) => label = FLAT
                /\ (g = RInt(9) /\ rd = 20) => label = RAPID

\* a growth rate of exactly 0.8 with rank delta 16 is labelled growth, not rapid
C5_Witness ==
    /\ pc = "reclassified"
    /\ summary[1].growth_rate = Rat(8, 10)
    /\ summary[1].rank_improve = 16
    /\ out.labels[1] = GROWTH


-----------------------------------------------------------------------------
(* The scripts, run on the files under data/ *)

\* A file twitch_ranking_<tag>.csv: tag is the snapshot time its name parses
\* to, or BadTag when strptime rejects it; columns_ok says whether rank, name,
\* streamers and viewers are all among its columns; rows are its records.
BadTag == 0

FileRows ==
    [name : Names, viewers : ViewerValues, streamers : StreamerValues, rank : RankValues]

\* a snapshot holds no record or one
FileContents == {<<>>} \cup {<<r>> : r \in FileRows}

SnapshotFiles ==
    [tag : 1..MaxTime, columns_ok : {TRUE}, rows : FileContents]
    \cup [tag : 1..MaxTime, columns_ok : {FALSE}, rows : {<<>>}]
    \cup [tag : {BadTag}, columns_ok : {TRUE}, rows : {<<>>}]

\* sorted(glob.glob(pattern)): the names are distinct and ascending, and the
\* collector's zero-padded tags ascend with the time they stand for
FileLists ==
    {fs \in SeqsUpTo(SnapshotFiles, MaxFiles) :
        \A i, j \in 1..Len(fs) :
            (i < j /\ fs[i].tag # BadTag /\ fs[j].tag # BadTag) => fs[i].tag < fs[j].tag}

Init ==
    /\ pc = "start"
    /\ \E isdir \in BOOLEAN, fs \in FileLists :
          /\ (~isdir => fs = <<>>)
          /\ files = [isdir |-> isdir, list |-> fs]
    /\ df = <<>>
    /\ summary = <<>>
    /\ view = <<>>
    /\ out = NoOut

\* df["snapshot"] = snapshot, for the records of one file
Stamped(f) ==
    [i \in 1..Len(f.rows) |->
        [name |-> f.rows[i].name, snapshot |-> f.tag, viewers |-> f.rows[i].viewers,
         streamers |-> f.rows[i].streamers, rank |-> f.rows[i].rank]]

\* pd.concat(records, ignore_index=True)
RECURSIVE Concat(_)
Concat(fs) == IF fs = <<>> THEN <<>> ELSE Stamped(Head(fs)) \o Concat(Tail(fs))

\* Faulty variant: only the file name is validated, not the columns.
Invalid_NameOnly(f) == f.tag = BadTag

\* a file load_history() rejects: strptime fails on its name, or a required
\* column is missing
Invalid(f) == f.tag = BadTag \/ ~f.columns_ok

\* dashboard.py load_history(): (df_all, None) or (None, message)
DashLoadHistory ==
    /\ pc = "start"
    /\ IF ~files.isdir
       THEN /\ out' = [kind |-> "error", msg |-> "no_data_dir", file |-> 0]
            /\ df' = <<>>
            /\ pc' = "dash_error"
       ELSE IF files.list = <<>>
       THEN /\ out' = [kind |-> "error", msg |-> "no_files", file |-> 0]
            /\ df' = <<>>
            /\ pc' = "dash_error"
       ELSE IF \E i \in 1..Len(files.list) : Invalid(files.list[i])
       THEN LET i == Min({j \in 1..Len(files.list) : Invalid(files.list[j])})
            IN  /\ out' = [kind |-> "error",
                           msg |-> IF files.list[i].tag = BadTag
                                   THEN "bad_file_name" ELSE "missing_columns",
                           file |-> i]
                /\ df' = <<>>
                /\ pc' = "dash_error"
       ELSE /\ out' = [kind |-> "ok"]
            /\ df' = DashDerive(Concat(files.list))
            /\ pc' = "dash_loaded"
    /\ UNCHANGED <<files, summary, view>>

\* main(): if error_msg: st.error(error_msg); st.stop()
DashStopOnError ==
    /\ pc = "dash_error"
    /\ pc' = "dash_stopped"
    /\ UNCHANGED <<files, df, summary, view, out>>

\* main(): the data-period line and summary = build_summary(df).  With no row
\* at all min_snap is NaT, whose strftime raises ValueError.
DashSummarise ==
    /\ pc = "dash_loaded"
    /\ IF df = <<>>
       THEN /\ out' = [kind |-> "raise", error |-> "ValueError"]
            /\ summary' = <<>>
            /\ pc' = "dash_raised"
       ELSE /\ \E sorted \in SortedBySnapshot(df) : summary' = build_summary(df, sorted)
            /\ out' = [kind |-> "ok"]
            /\ pc' = "dash_summarised"
    /\ UNCHANGED <<files, df, view>>


\* The sidebar.  A name filter is the text text_input returned, a sequence of
\* characters.
RankingMetrics ==
    {"growth_score", "total_viewers", "avg_viewers", "max_viewers", "last_viewers",
     "avg_competition", "viewers_delta", "growth_rate", "rank_improve"}
MinTotalViewersValues == {0, 2}
MaxPattern == 2
PatternChars == {"a", " ", ".", "("}
NameFilters == SeqsUpTo(PatternChars, MaxPattern)
TopNValues == {5, 20}

\* the text of the category names, in the order groupby sorts them
CategoryText(name) == IF name = 1 THEN <<"A", "a">> ELSE <<"b">>

\* bool(name_filter.strip()) is False: nothing but whitespace
Blank(name_filter) == \A i \in 1..Len(name_filter) : name_filter[i] = " "

\* re.compile(pat, re.IGNORECASE), which str.contains calls because regex
\* defaults to True: a "(" that nothing closes is not a regular expression
Compiles(pat) == \A i \in 1..Len(pat) : pat[i] # "("

Lower(c) == IF c = "A" THEN "a" ELSE c

\* one element of the compiled pattern against one character: "." matches
\* any character, anything else itself in either case
MatchesChar(p, c) == p = "." \/ Lower(p) = Lower(c)

\* Series.str.contains(pat, case=False, na=False) on one name: re.search
StrContains(pat, text) ==
    \E s \in 0..(Len(text) - Len(pat)) :
        \A j \in 1..Len(pat) : MatchesChar(pat[j], text[s + j])

\* the filter block of main(): boolean-mask selections, which keep row order
Filtered(t, min_samples, min_total_viewers, name_filter) ==
    LET kept == Ascending({k \in 1..Len(t) :
                    /\ t[k].samples >= min_samples
                    /\ t[k].total_viewers >= min_total_viewers
                    /\ (~Blank(name_filter) =>
                           StrContains(name_filter, CategoryText(t[k].category)))})
    IN  [i \in 1..Len(kept) |-> t[kept[i]]]

\* st.sidebar.slider(label, min_value, max_value, value): what the user can
\* set it to; the slider widens its bounds to hold its initial value
SliderRange(min_value, max_value, value) ==
    (IF value < min_value THEN value ELSE min_value) ..
    (IF value > max_value THEN value ELSE max_value)

\* main(): the sidebar widgets and the filter; a name filter that is not
\* blank and not a regular expression raises re.error out of str.contains;
\* an empty result warns and stops
DashFilter ==
    /\ pc = "dash_summarised"
    /\ LET max_samples == Max({summary[k].samples : k \in 1..Len(summary)})
       IN  \E min_samples \in SliderRange(1, max_samples, 3),
              min_total_viewers \in MinTotalViewersValues,
              name_filter \in NameFilters :
              IF ~Blank(name_filter) /\ ~Compiles(name_filter)
              THEN /\ view' = view
                   /\ out' = [kind |-> "raise", error |-> "re.error",
                              min_samples |-> min_samples,
                              min_total_viewers |-> min_total_viewers,
                              name_filter |-> name_filter]
                   /\ pc' = "dash_raised"
              ELSE LET filtered ==
                           Filtered(summary, min_samples, min_total_viewers, name_filter)
                   IN  /\ view' = filtered
                       /\ out' = [kind |-> IF filtered = <<>> THEN "warning" ELSE "filtered",
                                  min_samples |-> min_samples,
                                  min_total_viewers |-> min_total_viewers,
                                  name_filter |-> name_filter]
                       /\ pc' = IF filtered = <<>> THEN "dash_stopped" ELSE "dash_filtered"
    /\ UNCHANGED <<files, df, summary>>

RationalColumns == {"growth_score", "avg_viewers", "avg_competition", "growth_rate"}
MetricValue(r, m) == IF m \in RationalColumns THEN r[m] ELSE RInt(r[m])

\* The row orders sort_values(ranking_metric, ascending=False) may return:
\* descending in the metric; kind="quicksort" promises no order among rows of
\* equal metric.
SortedDescending(t, m) ==
    {[i \in 1..Len(t) |-> t[p[i]]] : p \in
        {q \in Perms(Len(t)) :
            \A i, j \in 1..Len(t) :
                i < j => ~RLess(MetricValue(t[q[i]], m), MetricValue(t[q[j]], m))}}

\* show_cols; "viewers_increase" is "視聴者増加量", which is not the summary's
\* "視聴者数増加量" (viewers_delta)
show_cols ==
    {"category", "growth_type", "growth_score", "viewers_increase", "growth_rate",
     "rank_improve", "last_viewers", "total_viewers", "avg_viewers", "max_viewers",
     "avg_competition", "viewers_std", "samples", "first_snapshot", "last_snapshot",
     "first_rank", "last_rank", "peak_viewers", "peak_snapshot"}

\* DataFrame.head(n)
HeadRows(t, n) == IF Len(t) <= n THEN t ELSE SubSeq(t, 1, n)

\* main(): the sort by the ranking metric and the ranking table,
\* st.dataframe(filtered[show_cols].head(top_n)); selecting a column the
\* frame does not have raises KeyError
DashRank ==
    /\ pc = "dash_filtered"
    /\ \E ranking_metric \in RankingMetrics, top_n \in TopNValues :
        \E sorted \in SortedDescending(view, ranking_metric) :
          /\ view' = sorted
          /\ IF show_cols \subseteq DOMAIN sorted[1]
             THEN /\ out' = [kind |-> "dataframe", ranking_metric |-> ranking_metric,
                             top_n |-> top_n, rows |-> HeadRows(sorted, top_n)]
                  /\ pc' = "dash_shown"
             ELSE /\ out' = [kind |-> "raise", error |-> "KeyError",
                             ranking_metric |-> ranking_metric, top_n |-> top_n]
                  /\ pc' = "dash_raised"
    /\ UNCHANGED <<files, df, summary>>

\* analyze_twitch_history.py load_history(): strptime is not guarded, and no
\* record at all raises RuntimeError
AnalyzeLoadHistory ==
    /\ pc = "start"
    /\ IF \E i \in 1..Len(files.list) : files.list[i].tag = BadTag
       THEN /\ out' = [kind |-> "raise", error |-> "ValueError"]
            /\ df' = <<>>
            /\ pc' = "an_raised"
       ELSE IF files.list = <<>>
       THEN /\ out' = [kind |-> "raise", error |-> "RuntimeError"]
            /\ df' = <<>>
            /\ pc' = "an_raised"
       ELSE /\ out' = [kind |-> "ok"]
            /\ df' = Concat(files.list)
            /\ pc' = "an_loaded"
    /\ UNCHANGED <<files, summary, view>>

\* main(): df = prepare_metrics(df).  Nothing checked the columns: a file
\* without a required column leaves the frame with that column absent or NaN,
\* and the run from there on is not modelled.
AnalyzePrepareMetrics ==
    /\ pc = "an_loaded"
    /\ IF \E i \in 1..Len(files.list) : ~files.list[i].columns_ok
       THEN /\ out' = [kind |-> "columns_absent_or_nan"]
            /\ df' = df
            /\ pc' = "an_bad_columns"
       ELSE /\ out' = [kind |-> "ok"]
            /\ df' = prepare_metrics(df)
            /\ pc' = "an_prepared"
    /\ UNCHANGED <<files, summary, view>>

\* main(): the two charts' data (which leave the table alone) and
\* detect_struggling_categories(df)
AnalyzeDetect ==
    /\ pc = "an_prepared"
    /\ \E sorted \in SortedBySnapshot(df) : out' = detect_struggling_categories(sorted)
    /\ pc' = "an_done"
    /\ UNCHANGED <<files, df, summary, view>>

Next ==
    \/ DashLoadHistory
    \/ DashStopOnError
    \/ DashSummarise
    \/ DashFilter
    \/ DashRank
    \/ AnalyzeLoadHistory
    \/ AnalyzePrepareMetrics
    \/ AnalyzeDetect

Spec == Init /\ [][Next]_vars


-----------------------------------------------------------------------------
(* Properties of the scripts *)

\* C1: wherever the index is derived, it is finite and >= 0, equals
\* viewers / streamers when streamers > 0, and equals 0 when streamers = 0,
\* also when viewers > 0.
C1_IndexZeroWhenNoStreamers ==
    \A i \in 1..Len(df) :
        "competition_index" \in DOMAIN df[i] =>
            LET o == df[i]
                ci == o.competition_index
            IN  /\ ci.d > 0
                /\ ci.n >= 0
                /\ o.streamers > 0 => ci.n * o.streamers = o.viewers * ci.d
                /\ o.streamers = 0 => ci.n = 0

\* C7: with no snapshot loaded, loading followed by aggregation gives an
\* empty result and raises nothing.
C7_NoSnapshotsNoError ==
    (pc # "start" /\ files.list = <<>>) => (out.kind # "raise" /\ summary = <<>>)

\* the ranking step of main() has run on a non-empty filtered table
RankingRan == pc = "dash_shown" \/ (pc = "dash_raised" /\ out.error = "KeyError")

\* C10: the ranking shown for a metric and a limit N is sorted by the metric
\* in non-increasing order, has min(N, number of filtered categories) rows,
\* holds the N largest filtered categories, and orders equal metric values by
\* category name ascending.
C10_RankingSortedTopN ==
    RankingRan =>
        /\ out.kind = "dataframe"
        /\ Len(out.rows) = IF out.top_n < Len(view) THEN out.top_n ELSE Len(view)
        /\ \A i, j \in 1..Len(out.rows) :
              i < j =>
                 LET a == MetricValue(out.rows[i], out.ranking_metric)
                     b == MetricValue(out.rows[j], out.ranking_metric)
                 IN  /\ ~RLess(a, b)
                     /\ a = b => out.rows[i].category < out.rows[j].category
        /\ \A i \in 1..Len(out.rows) : out.rows[i] \in Range(view)
        /\ \A r \in Range(view) :
              r \notin Range(out.rows) =>
                 \A i \in 1..Len(out.rows) :
                    ~RLess(MetricValue(out.rows[i], out.ranking_metric),
                           MetricValue(r, out.ranking_metric))

\* the filter block of main() has run
FilterRan ==
    \/ pc = "dash_filtered"
    \/ (pc = "dash_stopped" /\ out.kind = "warning")
    \/ (pc = "dash_raised" /\ out.error = "re.error")

\* the pattern occurs in the text as a substring, letter case ignored
ContainsIgnoringCase(pat, text) ==
    \E s \in 0..(Len(text) - Len(pat)) :
        \A j \in 1..Len(pat) : Lower(pat[j]) = Lower(text[s + j])

\* C11: the filter raises nothing and keeps exactly the summary rows with
\* observation count >= the minimum, cumulative viewers >= the minimum and a
\* name containing the pattern case-insensitively, every row passing the name
\* test when the pattern is empty or all whitespace; a filter that excludes
\* every row gives the empty result.
C11_FilterKeepsExactly ==
    FilterRan =>
        /\ out.kind # "raise"
        /\ Range(view) =
              {r \in Range(summary) :
                  /\ r.samples >= out.min_samples
                  /\ r.total_viewers >= out.min_total_viewers
                  /\ (Blank(out.name_filter)
                        \/ ContainsIgnoringCase(out.name_filter, CategoryText(r.category)))}
        /\ Len(view) = Cardinality(Range(view))

\* load_history() of the dashboard has just returned
LoadReturned == pc = "dash_error" \/ pc = "dash_loaded"

\* the file's name holds no timestamp, or the file lacks one of rank, name,
\* streamers, viewers
FailsValidation(f) == f.tag = BadTag \/ ~f.columns_ok

\* the number of rows in the files before file i
RowsBefore(fs, i) == SumOver(1..(i - 1), [k \in 1..(i - 1) |-> Len(fs[k].rows)])

\* C12: if any file fails validation, load_history returns no table and an
\* error message, however many earlier files loaded; it returns a table only
\* when every file passed, and then the table holds every row of every file,
\* each with the snapshot time of the file it came from.
C12_LoadAllOrNothing ==
    LoadReturned =>
        LET fs == files.list
        IN  /\ (\E i \in 1..Len(fs) : FailsValidation(fs[i])) =>
                  (pc = "dash_error" /\ out.kind = "error" /\ df = <<>>)
            /\ pc = "dash_loaded" =>
                  /\ out.kind = "ok"
                  /\ \A i \in 1..Len(fs) : ~FailsValidation(fs[i])
                  /\ Len(df) = RowsBefore(fs, Len(fs) + 1)
                  /\ \A i \in 1..Len(fs) :
                        \A j \in 1..Len(fs[i].rows) :
                           LET o == df[RowsBefore(fs, i) + j]
                           IN  /\ o.snapshot = fs[i].tag
                               /\ o.name = fs[i].rows[j].name
                               /\ o.viewers = fs[i].rows[j].viewers
                               /\ o.streamers = fs[i].rows[j].streamers
                               /\ o.rank = fs[i].rows[j].rank

\* C12 witness: the first file loaded a row and a later file lacks a
\* required column; load_history returned the error for that file.
C12_Witness ==
    /\ pc = "dash_error"
    /\ out.msg = "missing_columns"
    /\ out.file > 1
    /\ ~FailsValidation(files.list[1])
    /\ files.list[1].rows # <<>>

=============================================================================
